---------------------------- MODULE Spec2Model ----------------------------
(***************************************************************************)
(* A model of diptorch: Gaussian derivative kernels, separable filtering,  *)
(* the Hessian of 2D/3D images, closed-form eigenvalues and the Frangi     *)
(* vesselness filter (src/diptorch/filters.py, src/diptorch/linalg.py).    *)
(*                                                                         *)
(* Numbers.  A tensor element is a binary floating-point number <<m, e>>,  *)
(* standing for m * 2^e, with a mantissa of 14 bits (float32 has 24) and   *)
(* an unbounded exponent.  Every operation rounds its exact result to the  *)
(* nearest such number, so results that fit are exact.  The form is        *)
(* canonical (m odd, or <<0, 0>> for zero), so equal values are equal      *)
(* tuples.  <<0, 1>> is NaN, <<0, 2>> is +inf and <<0, 3>> is -inf, and    *)
(* the operations follow IEEE 754 on them.  exp and sqrt are computed in   *)
(* this arithmetic; cos(arccos(r)/3) is described where it is defined.     *)
(*                                                                         *)
(* Tensors.  A tensor is [shape |-> <<s1,...,sk>>, data |-> f] with f a    *)
(* function on the index tuples of the shape (indices start at 1).         *)
(***************************************************************************)
EXTENDS Integers, Sequences, FiniteSets, TLC

VARIABLES
    pc,            \* where the running call stands
    err,           \* the exception the call raised, "none" if none
    img,           \* gaussian_filter/hessian: the image (tensor [B, C, *spatial])
    sigma,         \* the standard deviation passed to the call
    order,         \* gaussian_filter: the derivative order per axis
    truncate,      \* the kernel half-width in standard deviations
    mode,          \* the padding mode
    stable,        \* how this build's argsort orders equal keys
    dim,           \* gaussian_filter: the axis the loop stands at (0-based)
    nconv,         \* number of convolutions performed by the call so far
    kernel,        \* _gaussian_kernel_1d: the kernel returned
    ret,           \* the value the call returned
    comps,         \* the upper-triangular components hessian returned or
                   \* eigvalsh2/eigvalsh3 receive
    eig,           \* hessian_eigenvalues: the eigenvalues before reordering
    eigEps,        \* eigvalsh3: its eps argument
    image,         \* frangi: the input image
    sigmas,        \* frangi: the scales
    gamma,         \* frangi: <<>> for None, <<g>> for a given threshold
    eps,           \* frangi: its eps argument
    nscales,       \* frangi: number of scales processed
    eigenvalues,   \* frangi: the eigenvalues of the scale, reordered
    r_a,           \* frangi: the plate ratio of the scale
    r_b,           \* frangi: the blob ratio of the scale
    result,        \* frangi: the response of the scale
    filtered_max   \* frangi: the running maximum

\* the variables only frangi uses
frangiVars ==
    <<image, sigmas, gamma, eps, nscales, eigenvalues, r_a, r_b, result, filtered_max>>

vars == <<pc, err, img, sigma, order, truncate, mode, stable, dim, nconv, kernel,
          ret, comps, eig, eigEps, frangiVars>>

-----------------------------------------------------------------------------
(* Floating-point numbers *)

Abs(n) == IF n < 0 THEN -n ELSE n

Sgn(n) == IF n < 0 THEN -1 ELSE IF n > 0 THEN 1 ELSE 0

MinI(a, b) == IF a <= b THEN a ELSE b

MaxI(a, b) == IF a >= b THEN a ELSE b

\* 2^14: mantissas are below it
MantissaLimit == 2^14

\* the number of binary digits of 0 <= n < 2^30
BitLen(n) == CHOOSE b \in 0..30 : n < 2^b /\ (b = 0 \/ 2^(b - 1) <= n)

\* the number of trailing binary zeros of 0 < n < 2^30
TrailingZeros(n) == CHOOSE z \in 0..29 : n % 2^z = 0 /\ n % 2^(z + 1) # 0

NaN == <<0, 1>>
PosInf == <<0, 2>>
NegInf == <<0, 3>>
Zero == <<0, 0>>

IsNaN(a) == a = NaN
IsInf(a) == a = PosInf \/ a = NegInf
IsFinite(a) == a[1] # 0 \/ a[2] = 0

\* the sign of a number that is not NaN
Sign(a) == IF a = PosInf THEN 1 ELSE IF a = NegInf THEN -1 ELSE Sgn(a[1])

Inf(sign) == IF sign < 0 THEN NegInf ELSE PosInf

\* m * 2^e for an integer |m| < 2^30, rounded to 14 bits (half away from 0)
Fl(m, e) ==
    LET a == Abs(m)
        bits == BitLen(a)
    IN  CASE m = 0 -> Zero
          [] m # 0 /\ bits <= 14 ->
                LET tz == TrailingZeros(a)
                IN  <<m \div 2^tz, e + tz>>
          [] OTHER ->
                LET drop == bits - 14
                    r == (a + 2^(drop - 1)) \div 2^drop
                    tz == TrailingZeros(r)
                IN  <<Sgn(m) * (r \div 2^tz), e + drop + tz>>

\* the integer n
R(n) == Fl(n, 0)

One == R(1)
Two == R(2)
Half == Fl(1, -1)

RNeg(a) ==
    IF IsNaN(a) THEN NaN
    ELSE IF a = PosInf THEN NegInf
    ELSE IF a = NegInf THEN PosInf
    ELSE <<-a[1], a[2]>>

RAbs(a) ==
    IF IsNaN(a) THEN NaN
    ELSE IF IsInf(a) THEN PosInf
    ELSE <<Abs(a[1]), a[2]>>

\* IEEE addition: inf + (-inf) and anything with NaN are NaN.  An operand
\* more than 2^15 times smaller than the other is below half a unit in its
\* last place and leaves it unchanged.
RAdd(a, b) ==
    LET lo == MinI(a[2], b[2])
        da == a[2] - lo
        db == b[2] - lo
    IN  CASE IsNaN(a) \/ IsNaN(b) -> NaN
          [] IsInf(a) /\ IsInf(b) -> (IF a = b THEN a ELSE NaN)
          [] IsInf(a) -> a
          [] IsInf(b) -> b
          [] a = Zero -> b
          [] b = Zero -> a
          [] da + BitLen(Abs(a[1])) > 29 -> a
          [] db + BitLen(Abs(b[1])) > 29 -> b
          [] OTHER -> Fl(a[1] * 2^da + b[1] * 2^db, lo)

RSub(a, b) == RAdd(a, RNeg(b))

\* IEEE multiplication: 0 * inf is NaN
RMul(a, b) ==
    CASE IsFinite(a) /\ IsFinite(b) -> Fl(a[1] * b[1], a[2] + b[2])
      [] IsNaN(a) \/ IsNaN(b) \/ a = Zero \/ b = Zero -> NaN
      [] OTHER -> Inf(Sign(a) * Sign(b))

\* IEEE division: 0/0 and inf/inf are NaN, x/0 is a signed infinity
RDiv(a, b) ==
    LET up == 30 - BitLen(Abs(a[1]))
        q == (Abs(a[1]) * 2^up) \div Abs(b[1])
    IN  CASE IsNaN(a) \/ IsNaN(b) -> NaN
          [] IsInf(a) /\ IsInf(b) -> NaN
          [] IsInf(a) -> Inf(Sign(a) * (IF Sign(b) < 0 THEN -1 ELSE 1))
          [] IsInf(b) -> Zero
          [] b = Zero -> (IF a = Zero THEN NaN ELSE Inf(Sign(a)))
          [] a = Zero -> Zero
          [] OTHER -> Fl(Sgn(a[1]) * Sgn(b[1]) * q, a[2] - up - b[2])

RSquare(a) == RMul(a, a)

\* comparisons are false as soon as a NaN is involved
RLt(a, b) ==
    /\ ~IsNaN(a)
    /\ ~IsNaN(b)
    /\ a # b
    /\ IF IsInf(a) THEN a = NegInf
       ELSE IF IsInf(b) THEN b = PosInf
       ELSE Sign(RSub(a, b)) < 0

RLe(a, b) == ~IsNaN(a) /\ ~IsNaN(b) /\ (a = b \/ RLt(a, b))

\* torch.maximum: the larger value, NaN if either is NaN
RMax(a, b) ==
    IF IsNaN(a) \/ IsNaN(b) THEN NaN
    ELSE IF RLt(a, b) THEN b ELSE a

\* Tensor.clamp(lo, hi) on one element; NaN stays NaN
RClamp(a, lo, hi) ==
    IF IsNaN(a) THEN NaN
    ELSE IF RLt(a, lo) THEN lo
    ELSE IF RLt(hi, a) THEN hi
    ELSE a

\* math.ceil of a finite number below 2^30 in magnitude
Ceil(a) ==
    IF a[2] >= 0 THEN a[1] * 2^a[2]
    ELSE IF a[2] < -30 THEN (IF a[1] > 0 THEN 1 ELSE 0)
    ELSE -((-a[1]) \div 2^(-a[2]))

\* the relative tolerance of comparisons between rounded results: 2^-6
Tolerance == Fl(1, -6)

\* a and b are finite and equal up to rounding
Close(a, b) ==
    /\ IsFinite(a)
    /\ IsFinite(b)
    /\ RLe(RAbs(RSub(a, b)),
           RMul(Tolerance, RMax(One, RMax(RAbs(a), RAbs(b)))))

\* math.floor of a finite number below 2^30 in magnitude
Floor(a) == -Ceil(RNeg(a))

\* the element of a set of one element.  Only({e : x \in {v}}) is e with x
\* standing for the value of v, which is computed once, before e, as a
\* Python assignment x = v followed by e; where such bindings are nested the
\* statements read from the last line up.
Only(S) == CHOOSE v \in S : TRUE

-----------------------------------------------------------------------------
(* The array runtime's transcendental primitives *)

\* ln 2 = 0.693147, as 11357 / 2^14
Ln2 == Fl(11357, -14)

\* exp(-t) for a finite t > 0: with t = k ln 2 + r and |r| <= (ln 2) / 2,
\* exp(-t) = 2^-k exp(-r), and exp(-r) is taken as its Pade approximant
\* (12 - 6r + r^2) / (12 + 6r + r^2), within 10^-4 of it
ExpNeg(t) ==
    Only({ Only({ Only({
        RMul(<<1, -k>>, RDiv(num, den)) :
            num \in {RAdd(RSub(R(12), RMul(R(6), r)), RSquare(r))},
            den \in {RAdd(RAdd(R(12), RMul(R(6), r)), RSquare(r))} }) :
            r \in {RSub(t, RMul(R(k), Ln2))} }) :
            k \in {Floor(RAdd(RDiv(t, Ln2), Half))} })

\* Tensor.exp on one element.  exp(NaN) = NaN, exp(-inf) = 0, exp(0) = 1,
\* and a float32 exp underflows to 0 below -104
RExp(a) ==
    CASE IsNaN(a) -> NaN
      [] a = PosInf -> PosInf
      [] a = NegInf -> Zero
      [] a = Zero -> One
      [] RLt(a, R(-104)) -> Zero
      [] a[1] < 0 -> ExpNeg(RAbs(a))
      [] OTHER -> RDiv(One, ExpNeg(a))

RECURSIVE ISqrtFrom(_, _)
\* Newton's iteration downwards from a start r above the root
ISqrtFrom(n, r) ==
    LET next == (r + n \div r) \div 2
    IN  IF next >= r THEN r ELSE ISqrtFrom(n, next)

\* the integer part of the square root of 0 < n < 2^30
ISqrt(n) == ISqrtFrom(n, 2^15)

\* Tensor.sqrt on one element: the root of the mantissa scaled to 28 or 29
\* bits, exact on squares; sqrt of a negative number is NaN
RSqrt(a) ==
    LET up0 == 28 - BitLen(a[1])
        up == IF (a[2] - up0) % 2 = 0 THEN up0 ELSE up0 + 1
    IN  CASE IsNaN(a) \/ a = NegInf -> NaN
          [] a = PosInf -> PosInf
          [] a = Zero -> Zero
          [] a[1] < 0 -> NaN
          [] OTHER -> Fl(ISqrt(a[1] * 2^up), (a[2] - up) \div 2)

\* math.sqrt(2 * torch.pi) = 2.50663, as 10267 / 2^12
Sqrt2Pi == Fl(10267, -12)

\* cos(arccos(r) / 3) for r in [-1, 1]: the chord through its exact end
\* points (r = -1 -> 1/2, r = 1 -> 1)
CosThird(r) == RAdd(Fl(3, -2), RDiv(r, R(4)))

\* cos(arccos(r) / 3 + 2 pi / 3) for r in [-1, 1]: the chord through its
\* exact end points (r = -1 -> -1, r = 1 -> -1/2)
CosThirdShifted(r) == RAdd(Fl(-3, -2), RDiv(r, R(4)))

-----------------------------------------------------------------------------
(* Tensors *)

RECURSIVE IdxSeq(_)
\* the index tuples of a shape, in row-major order
IdxSeq(shape) ==
    IF shape = <<>> THEN << <<>> >>
    ELSE LET rest == IdxSeq(Tail(shape))
             n == Len(rest)
         IN  [k \in 1..(shape[1] * n) |->
                 <<((k - 1) \div n) + 1>> \o rest[((k - 1) % n) + 1]] @@ <<>>

RECURSIVE Idx(_)
\* the set of index tuples of a shape
Idx(shape) ==
    IF shape = <<>> THEN {<<>>}
    ELSE LET rest == Idx(Tail(shape))
         IN  {<<j>> \o t : j \in 1..shape[1], t \in rest}

\* a function with its values computed once (TLC would otherwise evaluate
\* f[x] anew at every use)
Table(f) == f @@ <<>>

T(shape, data) == [shape |-> Table(shape), data |-> Table(data)]

Scalar(v) == T(<<>>, [i \in {<<>>} |-> v])

Rank(t) == Len(t.shape)

RECURSIVE RSumSeq(_)
RSumSeq(s) == IF s = <<>> THEN Zero ELSE RAdd(s[1], RSumSeq(Tail(s)))

RECURSIVE RMaxSeq(_)
RMaxSeq(s) == IF Len(s) = 1 THEN s[1] ELSE RMax(s[1], RMaxSeq(Tail(s)))

Numel(t) == Len(IdxSeq(t.shape))

\* the elements in row-major order
Flat(t) ==
    LET s == IdxSeq(t.shape)
    IN  [k \in 1..Len(s) |-> t.data[s[k]]] @@ <<>>

\* i with position k replaced by v
SetAt(i, k, v) == [i EXCEPT ![k] = v]

\* i without position k
DropAt(i, k) == SubSeq(i, 1, k - 1) \o SubSeq(i, k + 1, Len(i))

\* i with v inserted at position k
InsertAt(i, k, v) == SubSeq(i, 1, k - 1) \o <<v>> \o SubSeq(i, k, Len(i))

\* broadcasting (shapes aligned at the right, a size of 1 stretches)
\* the size along axis k (of n) of a shape aligned at the right
PadSize(shape, n, k) == IF k <= n - Len(shape) THEN 1 ELSE shape[k - (n - Len(shape))]

BroadcastShape(sa, sb) ==
    Table([k \in 1..MaxI(Len(sa), Len(sb)) |->
        MaxI(PadSize(sa, MaxI(Len(sa), Len(sb)), k), PadSize(sb, MaxI(Len(sa), Len(sb)), k))])

Broadcastable(sa, sb) ==
    \A k \in 1..MaxI(Len(sa), Len(sb)) :
        \E pa \in {PadSize(sa, MaxI(Len(sa), Len(sb)), k)},
           pb \in {PadSize(sb, MaxI(Len(sa), Len(sb)), k)} :
            pa = pb \/ pa = 1 \/ pb = 1

\* the index of the element that out-index i reads under broadcasting
BIndex(shape, i) ==
    LET off == Len(i) - Len(shape)
    IN  [k \in 1..Len(shape) |-> IF shape[k] = 1 THEN 1 ELSE i[k + off]]

\* the largest float32, (2 - 2^-23) * 2^127, rounded: 2^128
FloatMax == Fl(1, 128)

\* torch.nan_to_num(x, nan=0.0): NaN becomes 0 and the infinities the
\* largest and the smallest float32
NanToNum(x) ==
    CASE IsNaN(x) -> Zero
      [] x = PosInf -> FloatMax
      [] x = NegInf -> RNeg(FloatMax)
      [] OTHER -> x

\* the element of t that element i of a broadcast result reads
BGet(t, i) == t.data[BIndex(t.shape, i)]

\* the shape of an elementwise binary operation
BShape(a, b) == IF a.shape = b.shape THEN a.shape ELSE BroadcastShape(a.shape, b.shape)

\* the elementwise binary operations, broadcasting where the shapes differ
TAdd(a, b) == T(BShape(a, b), [i \in Idx(BShape(a, b)) |-> RAdd(BGet(a, i), BGet(b, i))])
TSub(a, b) == T(BShape(a, b), [i \in Idx(BShape(a, b)) |-> RSub(BGet(a, i), BGet(b, i))])
TMul(a, b) == T(BShape(a, b), [i \in Idx(BShape(a, b)) |-> RMul(BGet(a, i), BGet(b, i))])
TDiv(a, b) == T(BShape(a, b), [i \in Idx(BShape(a, b)) |-> RDiv(BGet(a, i), BGet(b, i))])
TMaximum(a, b) == T(BShape(a, b), [i \in Idx(BShape(a, b)) |-> RMax(BGet(a, i), BGet(b, i))])

\* the elementwise unary operations
TNeg(t) == T(t.shape, [i \in DOMAIN t.data |-> RNeg(t.data[i])])
TAbs(t) == T(t.shape, [i \in DOMAIN t.data |-> RAbs(t.data[i])])
TSquare(t) == T(t.shape, [i \in DOMAIN t.data |-> RSquare(t.data[i])])
TSqrt(t) == T(t.shape, [i \in DOMAIN t.data |-> RSqrt(t.data[i])])
TExp(t) == T(t.shape, [i \in DOMAIN t.data |-> RExp(t.data[i])])
\* Tensor.clamp(0)
TClamp0(t) == T(t.shape, [i \in DOMAIN t.data |-> RMax(t.data[i], Zero)])
\* Tensor.clamp(-1, 1)
TClamp11(t) == T(t.shape, [i \in DOMAIN t.data |-> RClamp(t.data[i], R(-1), One)])
TNanToNum(t) == T(t.shape, [i \in DOMAIN t.data |-> NanToNum(t.data[i])])
\* (Tensor.arccos() / 3).cos()
TCosThird(t) == T(t.shape, [i \in DOMAIN t.data |-> CosThird(t.data[i])])
\* (Tensor.arccos() / 3 + 2 * torch.pi / 3).cos()
TCosThirdShifted(t) == T(t.shape, [i \in DOMAIN t.data |-> CosThirdShifted(t.data[i])])

RECURSIVE ConcatPick(_, _, _)
ConcatPick(ts, ax, i) ==
    IF i[ax] <= ts[1].shape[ax] THEN ts[1].data[i]
    ELSE ConcatPick(Tail(ts), ax, SetAt(i, ax, i[ax] - ts[1].shape[ax]))

RECURSIVE SumSizes(_, _)
SumSizes(ts, ax) ==
    IF ts = <<>> THEN 0 ELSE ts[1].shape[ax] + SumSizes(Tail(ts), ax)

\* torch.concat(ts, ax): ax is the 1-based position of the axis
Concat(ts, ax) ==
    LET sh == SetAt(ts[1].shape, ax, SumSizes(ts, ax))
    IN  T(sh, [i \in Idx(sh) |-> ConcatPick(ts, ax, i)])

\* torch.stack(ts, ax): a new axis at position ax
Stack(ts, ax) ==
    LET sh == InsertAt(ts[1].shape, ax, Len(ts))
    IN  T(sh, [i \in Idx(sh) |-> ts[i[ax]].data[DropAt(i, ax)]])

\* Tensor.split(1, ax): the slices of size 1 along ax
SplitOnes(t, ax) ==
    LET sh == SetAt(t.shape, ax, 1)
    IN  Table([k \in 1..t.shape[ax] |->
            T(sh, [i \in Idx(sh) |-> t.data[SetAt(i, ax, k)]])])

KeptAxes(shape) == SelectSeq([k \in 1..Len(shape) |-> k], LAMBDA k : shape[k] # 1)

\* Tensor.squeeze(): every axis of size 1 is removed
Squeeze(t) ==
    LET kept == KeptAxes(t.shape)
        sh == [k \in 1..Len(kept) |-> t.shape[kept[k]]]
    IN  T(sh, [j \in Idx(sh) |-> t.data[[k \in 1..Rank(t) |->
                   IF t.shape[k] = 1 THEN 1
                   ELSE j[Cardinality({m \in 1..k : t.shape[m] # 1})]]]])

\* t[k - 1]: the k-th slice along the first axis, that axis removed
Select0(t, k) == T(Tail(t.shape), [i \in Idx(Tail(t.shape)) |-> t.data[<<k>> \o i]])

\* t[1:]: all but the first slice along the first axis
SliceFrom1(t) ==
    LET sh == SetAt(t.shape, 1, t.shape[1] - 1)
    IN  T(sh, [i \in Idx(sh) |-> t.data[SetAt(i, 1, i[1] + 1)]])

\* iterating a tensor (tuple unpacking): its slices along the first axis
Unbind0(t) == Table([k \in 1..t.shape[1] |-> Select0(t, k)])

\* Tensor.sum(ax) without keepdim
SumDim(t, ax) ==
    LET sh == DropAt(t.shape, ax)
    IN  T(sh, [i \in Idx(sh) |->
              RSumSeq([k \in 1..t.shape[ax] |-> t.data[InsertAt(i, ax, k)]])])

\* Tensor.sum(ax, keepdim=True)
SumDimKeep(t, ax) ==
    LET sh == SetAt(t.shape, ax, 1)
    IN  T(sh, [i \in Idx(sh) |->
              RSumSeq([k \in 1..t.shape[ax] |-> t.data[SetAt(i, ax, k)]])])

\* Tensor.max() over all elements
MaxAll(t) == RMaxSeq(Flat(t))

\* the sort order of torch.sort: ascending, NaN last
SortsBefore(a, b) == IF IsNaN(a) THEN FALSE ELSE IF IsNaN(b) THEN TRUE ELSE RLt(a, b)

\* the position in sorted order of element j of the line through i along ax
SortPos(t, ax, st, i, j) ==
    Cardinality({m \in 1..t.shape[ax] :
        LET vm == t.data[SetAt(i, ax, m)]
            vj == t.data[SetAt(i, ax, j)]
        IN  \/ SortsBefore(vm, vj)
            \/ /\ ~SortsBefore(vj, vm)
               /\ IF st THEN m < j ELSE m > j}) + 1

\* Tensor.argsort(ax): at position k along ax, the (1-based) position of
\* the k-th smallest element of that line.  torch leaves the order of equal
\* elements open (st = False): st says which way ties fall.
Argsort(t, ax, st) ==
    T(t.shape, [i \in Idx(t.shape) |->
        CHOOSE j \in 1..t.shape[ax] : SortPos(t, ax, st, i, j) = i[ax]])

\* torch.take_along_dim(t, index, ax)
TakeAlongDim(t, index, ax) ==
    T(index.shape, [i \in Idx(index.shape) |-> t.data[SetAt(i, ax, index.data[i])]])

\* the source position of padded position c (1-based, relative to the
\* unpadded axis of size n), or 0 where the constant 0 is filled in
PadSource(md, c, n) ==
    IF c >= 1 /\ c <= n THEN c
    ELSE IF md = "reflect" THEN (IF c < 1 THEN 2 - c ELSE 2 * n - c)
    ELSE IF md = "replicate" THEN (IF c < 1 THEN 1 ELSE n)
    ELSE IF md = "circular" THEN ((c - 1) % n) + 1
    ELSE 0

\* the padding F.pad puts on either side of axis k of a tensor of the given
\* rank: pad lists (left, right) per axis, last axis first, and every pad
\* list built here has left = right
PadOf(pad, rank, k) ==
    IF 2 * (rank - k + 1) <= Len(pad) THEN pad[2 * (rank - k + 1)] ELSE 0

\* F.pad(t, pad, md)
FPad(t, pad, md) ==
    LET sh == Table([k \in 1..Rank(t) |-> t.shape[k] + 2 * PadOf(pad, Rank(t), k)])
    IN  [shape |-> sh,
         data |-> Table([i \in Idx(sh) |->
             LET src == [k \in 1..Rank(t) |->
                            PadSource(md, i[k] - PadOf(pad, Rank(t), k), t.shape[k])]
             IN  IF \E k \in 1..Rank(t) : src[k] = 0 THEN Zero ELSE t.data[src]])]

Reverse(s) == Table([k \in 1..Len(s) |-> s[Len(s) - k + 1]])

\* F.conv{n}d(x, weight, padding, groups) for weight of shape [C, 1, *K]
\* with groups = C channels: zero padding, then a cross-correlation
ConvNd(x, weight, padding) ==
    Only({ Only({
        T(oshape, [i \in Idx(oshape) |->
            RSumSeq([m \in 1..Len(taps) |->
                RMul(xp.data[[k \in 1..Rank(x) |->
                         IF k <= 2 THEN i[k] ELSE i[k] + taps[m][k - 2] - 1]],
                     weight.data[<<i[2], 1>> \o taps[m]])])]) :
            oshape \in {[k \in 1..Rank(x) |->
                          IF k <= 2 THEN xp.shape[k] ELSE xp.shape[k] - ks[k - 2] + 1]},
            taps \in {IdxSeq(ks)} }) :
            xp \in {FPad(x, Reverse([k \in 1..(2 * Len(padding)) |->
                                        padding[(k + 1) \div 2]]), "constant")},
            ks \in {SubSeq(weight.shape, 3, Len(weight.shape))} })

\* Tensor.view of a 1-D ker as a weight that is 1 everywhere but on axis
View1D(ker, rank, axis) ==
    LET sh == [k \in 1..rank |-> IF k = axis THEN Len(ker) ELSE 1]
    IN  T(sh, [i \in Idx(sh) |-> ker[i[axis]]])

-----------------------------------------------------------------------------
(* filters.py: _gaussian_kernel_1d *)

\* torch.arange(-radius, radius + 1)
KernelX(radius) == Table([j \in 1..(2 * radius + 1) |-> R(j - radius - 1)])

\* the zeroth-order ker g (line 51)
Gauss(sig, x) ==
    Only({ Table([j \in 1..Len(x) |->
               RDiv(RExp(RDiv(RNeg(RSquare(x[j])), RMul(Two, var))), den)]) :
           var \in {RSquare(sig)},
           den \in {RMul(Sqrt2Pi, sig)} })

SeqMean(s) == RDiv(RSumSeq(s), R(Len(s)))

\* the orders _gaussian_kernel_1d supports; any other raises
\* NotImplementedError
SupportedOrders == {0, 1, 2}

\* lines 57-59: g1 from g
Kernel1(g, x, var) ==
    Only({ Only({ Only({
        Table([j \in 1..Len(x) |-> RDiv(b[j], s)]) :
            s \in {RDiv(RSumSeq([j \in 1..Len(x) |-> RMul(b[j], x[j])]), R(-1))} }) :
            b \in {Only({ Table([j \in 1..Len(x) |-> RSub(a[j], mean)]) :
                          mean \in {SeqMean(a)} })} }) :
            a \in {Table([j \in 1..Len(x) |-> RMul(g[j], RDiv(RNeg(x[j]), var))])} })

\* lines 62-64: g2 from g
Kernel2(g, x, var) ==
    Only({ Only({ Only({
        Table([j \in 1..Len(x) |-> RDiv(b[j], s)]) :
            s \in {RDiv(RSumSeq([j \in 1..Len(x) |-> RMul(b[j], RSquare(x[j]))]), Two)} }) :
            b \in {Only({ Table([j \in 1..Len(x) |-> RSub(a[j], mean)]) :
                          mean \in {SeqMean(a)} })} }) :
            a \in {Table([j \in 1..Len(x) |->
                       RDiv(RMul(g[j], RSub(RDiv(RSquare(x[j]), var), One)), var)])} })

\* _gaussian_kernel_1d(sigma, order, truncate, ...) for a supported order
gaussian_kernel_1d(sig, ord, trunc) ==
    Only({ Only({
        CASE ord = 0 -> g
          [] ord = 1 -> Kernel1(g, x, RSquare(sig))
          [] ord = 2 -> Kernel2(g, x, RSquare(sig)) :
            g \in {Gauss(sig, x)} }) :
            x \in {KernelX(Ceil(RMul(sig, trunc)))} })

-----------------------------------------------------------------------------
(* filters.py: _conv and gaussian_filter *)

\* the pad list _conv builds (lines 84-87): zero but at 2*d and 2*d + 1,
\* then reversed
PadList(ndim, d, padding) ==
    Reverse([j \in 1..(2 * ndim) |->
                IF j = 2 * d + 1 \/ j = 2 * d + 2 THEN padding ELSE 0])

\* _conv(img, convfn, sigma, order, truncate, mode, dim) for a supported
\* order; d is the 0-based spatial axis
conv(im, sig, ord, trunc, md, d) ==
    Only({ ConvNd(FPad(im, PadList(Rank(im) - 2, d, Len(ker) \div 2), md),
                  View1D(ker, Rank(im), d + 3),
                  [j \in 1..(Rank(im) - 2) |-> 0]) :
           ker \in {gaussian_kernel_1d(sig, ord, trunc)} })

\* gaussian_filter(img, sigma, order, mode, truncate) for a list of
\* supported orders, one per spatial axis: the loop of lines 37-38, which
\* runs one to three times (F has conv1d, conv2d and conv3d only)
gaussian_filter(im, sig, ords, md, trunc) ==
    Only({ Only({
        IF Len(ords) >= 3 THEN conv(x2, sig, ords[3], trunc, md, 2) ELSE x2 :
            x2 \in {IF Len(ords) >= 2 THEN conv(x1, sig, ords[2], trunc, md, 1) ELSE x1} }) :
            x1 \in {conv(im, sig, ords[1], trunc, md, 0)} })

\* F.pad accepts the padding: reflect needs it below the axis size,
\* circular at most the axis size
PadAccepted(md, padding, n) ==
    IF md = "reflect" THEN padding < n
    ELSE IF md = "circular" THEN padding <= n
    ELSE TRUE

-----------------------------------------------------------------------------
(* linalg.py *)

\* eigvalsh2 with the sign of ij.square() in the determinant turned
eigvalsh2_det_sign(ii, ij, jj) ==
    Only({ Only({
        TDiv(TAdd(tr, Concat(<<TNeg(disc), disc>>, 2)), Scalar(Two)) :
            disc \in {TSqrt(TClamp0(TSub(TSquare(tr), TMul(Scalar(R(4)), det))))} }) :
            tr \in {TAdd(ii, jj)},
            det \in {TAdd(TMul(ii, jj), TSquare(ij))} })

\* eigvalsh2(ii, ij, jj) on blocks of shape [B, 1, H, W]
eigvalsh2(ii, ij, jj) ==
    Only({ Only({
        TDiv(TAdd(tr, Concat(<<TNeg(disc), disc>>, 2)), Scalar(Two)) :
            disc \in {TSqrt(TClamp0(TSub(TSquare(tr), TMul(Scalar(R(4)), det))))} }) :
            tr \in {TAdd(ii, jj)},
            det \in {TSub(TMul(ii, jj), TSquare(ij))} })

deth3(ii, ij, ik, jj, jk, kk) ==
    Only({ TSub(TSub(TSub(TAdd(t1, t2), t3), t4), t5) :
           t1 \in {TMul(TMul(ii, jj), kk)},
           t2 \in {TMul(TMul(TMul(Scalar(Two), ij), ik), jk)},
           t3 \in {TMul(ii, TSquare(jk))},
           t4 \in {TMul(jj, TSquare(ik))},
           t5 \in {TMul(kk, TSquare(ij))} })

\* lines 76-84 without the eps in the denominator of r
eigvalsh3_qpr_unguarded(ii, ij, ik, jj, jk, kk, e) ==
    Only({ Only({ Only({ Only({
        [q |-> q, p |-> p, r |-> TDiv(TDiv(det, TMul(TMul(p, p), p)), Scalar(Two))] :
            det \in {deth3(TSub(ii, q), ij, ik, TSub(jj, q), jk, TSub(kk, q))} }) :
            p \in {TSqrt(TDiv(TAdd(TMul(Scalar(Two), p1), p2), Scalar(R(6))))} }) :
            p1 \in {SumDimKeep(TSquare(triu), 2)},
            p2 \in {SumDimKeep(TSquare(TSub(diag, q)), 2)} }) :
            diag \in {Concat(<<ii, jj, kk>>, 2)},
            triu \in {Concat(<<ij, ik, jk>>, 2)},
            q \in {TDiv(SumDimKeep(Concat(<<ii, jj, kk>>, 2), 2), Scalar(R(3)))} })

\* lines 76-84 of eigvalsh3: the mean q of the diagonal, the spread p and
\* the ratio r before it is clamped
eigvalsh3_qpr(ii, ij, ik, jj, jk, kk, e) ==
    Only({ Only({ Only({ Only({
        [q |-> q, p |-> p, r |-> TDiv(TDiv(det, TAdd(TMul(TMul(p, p), p), Scalar(e))), Scalar(Two))] :
            det \in {deth3(TSub(ii, q), ij, ik, TSub(jj, q), jk, TSub(kk, q))} }) :
            p \in {TSqrt(TDiv(TAdd(TMul(Scalar(Two), p1), p2), Scalar(R(6))))} }) :
            p1 \in {SumDimKeep(TSquare(triu), 2)},
            p2 \in {SumDimKeep(TSquare(TSub(diag, q)), 2)} }) :
            diag \in {Concat(<<ii, jj, kk>>, 2)},
            triu \in {Concat(<<ij, ik, jk>>, 2)},
            q \in {TDiv(SumDimKeep(Concat(<<ii, jj, kk>>, 2), 2), Scalar(R(3)))} })

\* eigvalsh3(ii, ij, ik, jj, jk, kk, eps) on blocks of shape [B, 1, D, H, W];
\* phi = arccos(r) / 3 enters only through cos(phi) and cos(phi + 2 pi / 3)
eigvalsh3(ii, ij, ik, jj, jk, kk, e) ==
    Only({ Only({ Only({
        Concat(<<eig1, TSub(TSub(TMul(Scalar(R(3)), qpr.q), eig1), eig3), eig3>>, 2) :
            eig3 \in {TAdd(qpr.q, TMul(TMul(Scalar(Two), qpr.p), TCosThird(r)))},
            eig1 \in {TAdd(qpr.q, TMul(TMul(Scalar(Two), qpr.p), TCosThirdShifted(r)))} }) :
            r \in {TClamp11(qpr.r)} }) :
            qpr \in {eigvalsh3_qpr(ii, ij, ik, jj, jk, kk, e)} })

\* the default of eigvalsh3's eps (line 67): 1e-8, as 10995 / 2^40
EigEpsDefault == Fl(10995, -40)

\* torch.triu_indices(n, n): (row, column) of the upper triangle, row-major
RECURSIVE TriuFrom(_, _, _)
TriuFrom(n, r, c) ==
    IF r > n THEN <<>>
    ELSE IF c > n THEN TriuFrom(n, r + 1, r + 1)
    ELSE << <<r, c>> >> \o TriuFrom(n, r, c + 1)

triu_indices(n) == TriuFrom(n, 1, 1)

\* A[:, *torch.triu_indices(n, n)].split(1, dim=1): the blocks eigvalsh
\* hands to eigvalsh2 / eigvalsh3 (lines 35 and 37)
TriuBlocks(A) ==
    Only({ Table([m \in 1..Len(tri) |->
               T(sh, [i \in Idx(sh) |->
                   A.data[<<i[1], tri[m][1], tri[m][2]>> \o SubSeq(i, 3, Len(i))]])]) :
           tri \in {triu_indices(A.shape[2])},
           sh \in {<<A.shape[1], 1>> \o SubSeq(A.shape, 4, Len(A.shape))} })

\* _is_square (line 14)
IsSquareMatrix(A) == A.shape[2] = A.shape[3]

\* _is_hermitian (lines 18-20): A equals A.transpose(1, 2)
IsHermitian(A) ==
    \A i \in Idx(A.shape) : A.data[i] = A.data[SetAt(SetAt(i, 2, i[3]), 3, i[2])]

\* eigvalsh(A, check_valid) for a matrix field that passes the checks
eigvalsh(A) ==
    Only({ IF A.shape[2] = 2 THEN eigvalsh2(b[1], b[2], b[3])
           ELSE eigvalsh3(b[1], b[2], b[3], b[4], b[5], b[6], EigEpsDefault) :
           b \in {TriuBlocks(A)} })

-----------------------------------------------------------------------------
(* filters.py: hessian, hessian_eigenvalues *)

\* _hessian_2d (lines 130-134)
hessian_2d(im, sig, md, trunc) ==
    Only({ <<xx, xy, yy>> :
           xx \in {gaussian_filter(im, sig, <<0, 2>>, md, trunc)},
           yy \in {gaussian_filter(im, sig, <<2, 0>>, md, trunc)},
           xy \in {gaussian_filter(im, sig, <<1, 1>>, md, trunc)} })

\* img.expand(-1, 6, -1, -1, -1) of an image with one channel
Expand6(im) ==
    LET sh == SetAt(im.shape, 2, 6)
    IN  T(sh, [i \in Idx(sh) |-> im.data[SetAt(i, 2, 1)]])

\* _hessian_3d (lines 137-187); mode is accepted and not used
hessian_3d(im, sig, trunc, md) ==
    Only({ Only({ Only({ Only({ Only({
        SplitOnes(x3, 2) :
            x3 \in {ConvNd(x2, kz, <<0, 0, padding>>)} }) :
            x2 \in {ConvNd(x1, ky, <<0, padding, 0>>)} }) :
            x1 \in {ConvNd(Expand6(im), kx, <<padding, 0, 0>>)} }) :
            padding \in {Len(g0) \div 2},
            kx \in {Concat(<<View1D(g2, 5, 5), View1D(g1, 5, 5), View1D(g1, 5, 5),
                             View1D(g0, 5, 5), View1D(g0, 5, 5), View1D(g0, 5, 5)>>, 1)},
            ky \in {Concat(<<View1D(g0, 5, 4), View1D(g1, 5, 4), View1D(g0, 5, 4),
                             View1D(g2, 5, 4), View1D(g1, 5, 4), View1D(g0, 5, 4)>>, 1)},
            kz \in {Concat(<<View1D(g0, 5, 3), View1D(g0, 5, 3), View1D(g1, 5, 3),
                             View1D(g0, 5, 3), View1D(g1, 5, 3), View1D(g2, 5, 3)>>, 1)} }) :
            g0 \in {gaussian_kernel_1d(sig, 0, trunc)},
            g1 \in {gaussian_kernel_1d(sig, 1, trunc)},
            g2 \in {gaussian_kernel_1d(sig, 2, trunc)} })

\* _hessian_as_matrix with the rows below the first filled from the wrong
\* components
hessian_as_matrix_rows_mixed(h) ==
    IF Len(h) = 3
    THEN Stack(<<Concat(<<h[1], h[2]>>, 2),
                 Concat(<<h[3], h[2]>>, 2)>>, 2)
    ELSE Stack(<<Concat(<<h[1], h[2], h[3]>>, 2),
                 Concat(<<h[4], h[2], h[5]>>, 2),
                 Concat(<<h[6], h[5], h[3]>>, 2)>>, 2)

\* _hessian_as_matrix (lines 190-211)
hessian_as_matrix(h) ==
    IF Len(h) = 3
    THEN Stack(<<Concat(<<h[1], h[2]>>, 2),
                 Concat(<<h[2], h[3]>>, 2)>>, 2)
    ELSE Stack(<<Concat(<<h[1], h[2], h[3]>>, 2),
                 Concat(<<h[2], h[4], h[5]>>, 2),
                 Concat(<<h[3], h[5], h[6]>>, 2)>>, 2)

\* the image ranks hessian accepts (lines 104-109); any other raises
\* ValueError
HessianRanks == {4, 5}

\* hessian(img, sigma, as_matrix=False, mode, truncate) for an accepted rank
hessian(im, sig, md, trunc) ==
    IF Rank(im) = 4 THEN hessian_2d(im, sig, md, trunc)
    ELSE hessian_3d(im, sig, trunc, md)

\* lines 119-124 of hessian_eigenvalues: the eigenvalues of the components
\* H; hessian returns 3 or 6 of them, so line 124 cannot raise
HessianEig(H) ==
    IF Len(H) = 3 THEN eigvalsh2(H[1], H[2], H[3])
    ELSE eigvalsh3(H[1], H[2], H[3], H[4], H[5], H[6], EigEpsDefault)

\* line 127 without the .abs(): the eigenvalues reordered by value
SortByValue(e, st) == TakeAlongDim(e, Argsort(e, 2, st), 2)

\* line 127: torch.take_along_dim(eig, eig.abs().argsort(dim=1), dim=1); st
\* is the tie order of this build's argsort
SortByAbs(e, st) == TakeAlongDim(e, Argsort(TAbs(e), 2, st), 2)

\* hessian_eigenvalues(img, sigma, mode, truncate) (lines 117-127)
hessian_eigenvalues(im, sig, md, trunc, st) ==
    Only({ Only({ SortByAbs(unsorted, st) :
                  unsorted \in {HessianEig(H)} }) :
                  H \in {hessian(im, sig, md, trunc)} })

-----------------------------------------------------------------------------
(* filters.py: frangi *)

\* the defaults of alpha and beta (lines 219-220): 0.5
Alpha == Half
Beta == Half

\* the default of frangi's eps (line 222): 1e-10, as 14074 / 2^47
FrangiEpsDefault == Fl(14074, -47)

\* the mode and truncate hessian_eigenvalues passes on when frangi calls it
\* without them: the defaults of gaussian_filter and _hessian_3d
DefaultMode == "reflect"
DefaultTruncate == R(4)

\* lines 258-259: the eigenvalue field squeezed, then reordered by absolute
\* value along its first axis; st is the tie order of this argsort
frangi_sorted(hev, st) ==
    Only({ TakeAlongDim(squeezed, Argsort(TAbs(squeezed), 1, st), 1) :
           squeezed \in {Squeeze(hev)} })

\* the tuple unpacking of lines 263 and 270 finds as many slices in
\* eigenvalues[1:] as it has names: one for a 2D image, two for a 3D image
UnpackFits(ev, ndim) == ev.shape[1] - 1 = ndim - 3

\* lines 260-272: the ratios r_a and r_b of an image of ndim axes
frangi_ratios(ev, ndim, ep) ==
    Only({ Only({
        IF ndim = 4
        THEN [r_a |-> Scalar(PosInf),
              r_b |-> TNanToNum(TAbs(TDiv(lambda1, Select0(floored, 1))))]
        ELSE Only({ [r_a |-> TDiv(lambda2, lambda3),
                     r_b |-> TDiv(TAbs(lambda1), TSqrt(TMul(lambda2, lambda3)))] :
                    lambda2 \in {Select0(floored, 1)},
                    lambda3 \in {Select0(floored, 2)} }) :
            floored \in {TMaximum(SliceFrom1(ev), Scalar(ep))} }) :
            lambda1 \in {Select0(ev, 1)} })

\* lines 275-280: gamma_t; gam is <<>> for None
GammaT(S, gam) ==
    IF gam = <<>>
    THEN Only({ IF half = Zero THEN One ELSE half : half \in {RDiv(MaxAll(S), Two)} })
    ELSE gam[1]

\* lines 274-283: the response of the scale
frangi_response(ev, ra, rb, gam, ep) ==
    Only({ Only({ Only({
        TMul(TMul(plate, blob), structure) :
            plate \in {TSub(Scalar(One),
                            TExp(TDiv(TNeg(TSquare(ra)), Scalar(RMul(Two, RSquare(Alpha))))))},
            blob \in {TExp(TDiv(TNeg(TSquare(rb)),
                                 Scalar(RAdd(RMul(Two, RSquare(Beta)), ep))))},
            structure \in {TSub(Scalar(One),
                                TExp(TDiv(TNeg(TSquare(S)),
                                          TAdd(TMul(Scalar(Two), TSquare(gamma_t)),
                                               Scalar(ep)))))} }) :
            gamma_t \in {Scalar(GammaT(S, gam))} }) :
            S \in {TSqrt(SumDim(TSquare(ev), 1))} })

\* torch.zeros_like(image)
ZerosLike(t) == T(t.shape, [i \in Idx(t.shape) |-> Zero])

\* lines 258-283 for one scale, st1 and st2 being how the two argsorts leave ties
frangi_scale(im, sig, gam, ep, st1, st2) ==
    Only({ Only({ Only({
        frangi_response(ev, ratios.r_a, ratios.r_b, gam, ep) :
            ratios \in {frangi_ratios(ev, Rank(im), ep)} }) :
            ev \in {frangi_sorted(hev, st2)} }) :
            hev \in {hessian_eigenvalues(im, sig, DefaultMode, DefaultTruncate, st1)} })

\* lines 257-285 from the k-th scale on, acc being filtered_max
RECURSIVE frangi_loop(_, _, _, _, _, _, _, _)
frangi_loop(im, sigs, gam, ep, st1, st2, k, acc) ==
    IF k > Len(sigs)
    THEN acc
    ELSE Only({ frangi_loop(im, sigs, gam, ep, st1, st2, k + 1, nxt) :
                nxt \in {TMaximum(acc, frangi_scale(im, sigs[k], gam, ep, st1, st2))} })

\* frangi on an image and scales that it accepts and that raise nothing
frangi(im, sigs, gam, ep, st1, st2) ==
    frangi_loop(im, sigs, gam, ep, st1, st2, 1, ZerosLike(im))

-----------------------------------------------------------------------------
(* Calls of _gaussian_kernel_1d on its own *)

\* the value of a variable the running call does not use
Unused == <<>>

KernelSigmas == {Fl(1, -2), Fl(1, -1), R(1), R(2)}

KernelTruncates == {R(0), R(1), R(2), R(4)}

KernelOrders == {0, 1, 2, 3}

InitKernel ==
    /\ pc = "call"
    /\ err = "none"
    /\ sigma \in KernelSigmas
    /\ truncate \in KernelTruncates
    /\ order \in KernelOrders
    /\ kernel = <<>>
    /\ img = Unused /\ mode = Unused /\ stable = Unused /\ dim = Unused
    /\ nconv = Unused /\ ret = Unused /\ comps = Unused /\ eig = Unused /\ eigEps = Unused
    /\ image = Unused /\ sigmas = Unused /\ gamma = Unused /\ eps = Unused
    /\ nscales = Unused /\ eigenvalues = Unused /\ r_a = Unused /\ r_b = Unused
    /\ result = Unused
    /\ filtered_max = Unused

\* _gaussian_kernel_1d returns the kernel
BuildKernel ==
    /\ pc = "call"
    /\ order \in SupportedOrders
    /\ kernel' = gaussian_kernel_1d(sigma, order, truncate)
    /\ pc' = "returned"
    /\ UNCHANGED <<err, img, sigma, order, truncate, mode, stable, dim, nconv, ret,
                   comps, eig, eigEps, frangiVars>>

\* _gaussian_kernel_1d raises for an order outside 0, 1, 2 (line 67)
RaiseUnsupportedOrder ==
    /\ pc = "call"
    /\ order \notin SupportedOrders
    /\ err' = "NotImplementedError"
    /\ pc' = "raised"
    /\ UNCHANGED <<img, sigma, order, truncate, mode, stable, dim, nconv, kernel, ret,
                   comps, eig, eigEps, frangiVars>>

NextKernel == BuildKernel \/ RaiseUnsupportedOrder

SpecKernel == InitKernel /\ [][NextKernel]_vars

KernelMoment(ker, p) ==
    LET r == (Len(ker) - 1) \div 2
    IN  RSumSeq([j \in 1..Len(ker) |->
            RMul(ker[j], IF p = 0 THEN One
                         ELSE IF p = 1 THEN R(j - r - 1)
                         ELSE R((j - r - 1) * (j - r - 1)))])

\* C7: for all sigma > 0 and truncate >= 0, also when the radius is 0, the
\* kernel returned satisfies the normalization of its order: order 0 sums to
\* 1; order 1 has zero mean and first moment -1; order 2 has zero mean and
\* second moment 2 (each up to rounding).
C7_KernelNormalized ==
    pc = "returned" =>
        /\ order = 0 => Close(KernelMoment(kernel, 0), One)
        /\ order = 1 => /\ Close(KernelMoment(kernel, 0), Zero)
                        /\ Close(KernelMoment(kernel, 1), R(-1))
        /\ order = 2 => /\ Close(KernelMoment(kernel, 0), Zero)
                        /\ Close(KernelMoment(kernel, 2), Two)

-----------------------------------------------------------------------------
(* Calls of gaussian_filter, one loop iteration per step *)

\* an image [1, 1, *spatial] with value v at index tuple p and 0 elsewhere
Impulse(spatial, p, v) ==
    T(<<1, 1>> \o spatial, [i \in Idx(<<1, 1>> \o spatial) |-> IF i = p THEN R(v) ELSE Zero])

\* an image [1, 1, *spatial] that is v everywhere
Constant(spatial, v) ==
    T(<<1, 1>> \o spatial, [i \in Idx(<<1, 1>> \o spatial) |-> R(v)])

RECURSIVE SumInts(_)
SumInts(s) == IF s = <<>> THEN 0 ELSE s[1] + SumInts(Tail(s))

\* an image [1, 1, *spatial] whose value is the sum of its spatial indices
Ramp(spatial) ==
    T(<<1, 1>> \o spatial,
      [i \in Idx(<<1, 1>> \o spatial) |-> R(SumInts(SubSeq(i, 3, Len(i))))])

\* largest pixel value of the images drawn
MaxPixel == 1

\* largest derivative order a caller passes
MaxOrder == 3

FilterImages ==
    {Impulse(<<3, 3>>, <<1, 1, 2, 3>>, v) : v \in 1..MaxPixel}
    \cup {Ramp(<<3, 3>>), Ramp(<<3>>), Ramp(<<2, 2, 3>>), Constant(<<2, 2, 2, 2>>, 1)}

OrderLists(n) == [1..n -> 0..MaxOrder]

FilterOrders ==
    {<<"int", o>> : o \in 0..MaxOrder}
    \cup {<<"list", l>> : l \in OrderLists(1) \cup OrderLists(2) \cup OrderLists(3)}

Modes == {"reflect", "replicate", "constant", "circular"}

InitFilter ==
    /\ pc = "call"
    /\ err = "none"
    /\ img \in FilterImages
    /\ sigma \in {Fl(1, -2), Fl(1, -1)}
    /\ truncate = R(4)
    /\ order \in FilterOrders
    /\ mode \in Modes
    /\ \A j \in 3..Rank(img) : PadAccepted(mode, Ceil(RMul(sigma, truncate)), img.shape[j])
    /\ dim = 0
    /\ nconv = 0
    /\ ret = Unused
    /\ kernel = Unused /\ stable = Unused /\ comps = Unused /\ eig = Unused /\ eigEps = Unused
    /\ image = Unused /\ sigmas = Unused /\ gamma = Unused /\ eps = Unused
    /\ nscales = Unused /\ eigenvalues = Unused /\ r_a = Unused /\ r_b = Unused
    /\ result = Unused
    /\ filtered_max = Unused

\* lines 29-34: an int order is repeated for every axis, a list must have
\* one entry per axis (assert), and conv{ndim}d must exist in F (getattr)
GfSetup ==
    /\ pc = "call"
    /\ LET ndim == Rank(img) - 2
       IN  IF order[1] = "list" /\ Len(order[2]) # ndim
           THEN /\ err' = "AssertionError"
                /\ pc' = "raised"
                /\ order' = order
           ELSE /\ order' = IF order[1] = "int"
                            THEN <<"list", Table([j \in 1..ndim |-> order[2]])>>
                            ELSE order
                /\ IF ndim \in {1, 2, 3}
                   THEN pc' = "loop" /\ err' = err
                   ELSE pc' = "raised" /\ err' = "AttributeError"
    /\ UNCHANGED <<img, sigma, truncate, mode, stable, dim, nconv, kernel, ret,
                   comps, eig, eigEps, frangiVars>>

\* one iteration of the loop (lines 37-38) with a supported order: _conv
\* builds the kernel, pads and convolves along axis dim
GfConv ==
    /\ pc = "loop"
    /\ dim < Len(order[2])
    /\ order[2][dim + 1] \in SupportedOrders
    /\ img' = conv(img, sigma, order[2][dim + 1], truncate, mode, dim)
    /\ nconv' = nconv + 1
    /\ dim' = dim + 1
    /\ UNCHANGED <<pc, err, sigma, order, truncate, mode, stable, kernel, ret,
                   comps, eig, eigEps, frangiVars>>

\* one iteration of the loop whose order is not supported:
\* _gaussian_kernel_1d raises inside _conv (line 67)
GfConvRaise ==
    /\ pc = "loop"
    /\ dim < Len(order[2])
    /\ order[2][dim + 1] \notin SupportedOrders
    /\ err' = "NotImplementedError"
    /\ pc' = "raised"
    /\ UNCHANGED <<img, sigma, order, truncate, mode, stable, dim, nconv, kernel, ret,
                   comps, eig, eigEps, frangiVars>>

\* line 39
GfReturn ==
    /\ pc = "loop"
    /\ dim = Len(order[2])
    /\ ret' = img
    /\ pc' = "returned"
    /\ UNCHANGED <<err, img, sigma, order, truncate, mode, stable, dim, nconv, kernel,
                   comps, eig, eigEps, frangiVars>>

NextFilter == GfSetup \/ GfConv \/ GfConvRaise \/ GfReturn

SpecFilter == InitFilter /\ [][NextFilter]_vars

\* C4: every validation failure (order list of the wrong length, order
\* outside 0..2, rank that is not supported) is raised before the call has
\* performed any convolution.
C4_ValidationBeforeWork == err # "none" => nconv = 0

-----------------------------------------------------------------------------
(* Calls of hessian and hessian_eigenvalues *)

\* an image [1, 1, *spatial] whose value is v times the product of its first
\* two spatial indices
Saddle(spatial, v) ==
    T(<<1, 1>> \o spatial, [i \in Idx(<<1, 1>> \o spatial) |-> R(v * i[3] * i[4])])

HessianImages ==
    {Impulse(<<3, 3>>, <<1, 1, 2, 2>>, v) : v \in 1..MaxPixel}
    \cup {Saddle(<<3, 3>>, 1), Ramp(<<3, 3>>),
          Saddle(<<2, 2, 3>>, 1), Impulse(<<2, 2, 3>>, <<1, 1, 1, 2, 2>>, 1),
          Ramp(<<3>>)}

HessianModes == {"reflect", "constant"}

\* the runtime accepts the paddings and kernel sizes of the call: F.pad
\* accepts the padding on every axis, and the unpadded W pass of _hessian_3d
\* has room for the kernel
ShapesAccepted(im, sig, trunc, md) ==
    LET radius == Ceil(RMul(sig, trunc))
    IN  /\ \A j \in 3..Rank(im) : PadAccepted(md, radius, im.shape[j])
        /\ Rank(im) = 5 => im.shape[5] >= 2 * radius + 1

InitHessian ==
    /\ pc = "call"
    /\ err = "none"
    /\ img \in HessianImages
    /\ sigma \in {Fl(1, -2), Fl(1, -1)}
    /\ truncate \in {R(2), R(4)}
    /\ mode \in HessianModes
    /\ ShapesAccepted(img, sigma, truncate, mode)
    /\ stable = Unused
    /\ ret = Unused
    /\ order = Unused /\ dim = Unused /\ nconv = Unused
    /\ kernel = Unused /\ comps = Unused /\ eig = Unused /\ eigEps = Unused
    /\ image = Unused /\ sigmas = Unused /\ gamma = Unused /\ eps = Unused
    /\ nscales = Unused /\ eigenvalues = Unused /\ r_a = Unused /\ r_b = Unused
    /\ result = Unused
    /\ filtered_max = Unused

\* hessian(img, sigma, as_matrix, mode=mode, truncate=truncate)
CallHessian ==
    /\ pc = "call"
    /\ Rank(img) \in HessianRanks
    /\ comps' = hessian(img, sigma, mode, truncate)
    /\ \E as_matrix \in BOOLEAN :
          /\ ret' = IF as_matrix THEN hessian_as_matrix(comps') ELSE comps'
          /\ pc' = IF as_matrix THEN "matrix" ELSE "components"
    /\ UNCHANGED <<err, img, sigma, order, truncate, mode, stable, dim, nconv, kernel,
                   eig, eigEps, frangiVars>>

\* hessian_eigenvalues(img, sigma, mode=mode, truncate=truncate); argsort is
\* not asked for a stable sort, so either order of tied values can come out
CallHessianEigenvalues ==
    /\ pc = "call"
    /\ Rank(img) \in HessianRanks
    /\ comps' = hessian(img, sigma, mode, truncate)
    /\ eig' = HessianEig(comps')
    /\ \E st \in BOOLEAN :
          /\ stable' = st
          /\ ret' = SortByAbs(eig', st)
    /\ pc' = "eigenvalues"
    /\ UNCHANGED <<err, img, sigma, order, truncate, mode, dim, nconv, kernel,
                   eigEps, frangiVars>>

\* hessian (and hessian_eigenvalues through it) raises for an image that is
\* neither 2D nor 3D (line 109)
HessianRaise ==
    /\ pc = "call"
    /\ Rank(img) \notin HessianRanks
    /\ err' = "ValueError"
    /\ pc' = "raised"
    /\ UNCHANGED <<img, sigma, order, truncate, mode, stable, dim, nconv, kernel, ret,
                   comps, eig, eigEps, frangiVars>>

NextHessian == CallHessian \/ CallHessianEigenvalues \/ HessianRaise

SpecHessian == InitHessian /\ [][NextHessian]_vars

\* the values of t along axis 2 at the pixel with batch index and spatial
\* indices i (i[2] is ignored)
PixelLine(t, i) == Table([j \in 1..t.shape[2] |-> t.data[SetAt(i, 2, j)]])

Count(s, v) == Cardinality({j \in 1..Len(s) : s[j] = v})

IsPermutation(s, u) ==
    /\ Len(s) = Len(u)
    /\ \A j \in 1..Len(s) : Count(s, s[j]) = Count(u, s[j])

\* C1: the field returned by hessian_eigenvalues is, at every pixel,
\* ascending in absolute value and a permutation of the values eigvalsh2 /
\* eigvalsh3 return there.
C1_EigenvaluesSortedByAbs ==
    pc = "eigenvalues" =>
        \A i \in Idx(ret.shape) :
            /\ i[2] < ret.shape[2] =>
                  RLe(RAbs(ret.data[i]), RAbs(ret.data[SetAt(i, 2, i[2] + 1)]))
            /\ IsPermutation(PixelLine(ret, i), PixelLine(eig, i))

\* C1's case: a field on which the reordering changed the order
C1_Witness ==
    /\ pc = "eigenvalues"
    /\ ret # eig
    /\ \E i \in Idx(ret.shape) : ret.data[i] # Zero

\* the per-axis orders (D, H, W) of the six components xx, xy, xz, yy, yz, zz
ComponentOrders3D ==
    << <<0, 0, 2>>, <<0, 1, 1>>, <<1, 0, 1>>, <<0, 2, 0>>, <<1, 1, 0>>, <<2, 0, 0>> >>

\* a and b have the same shape and are equal up to rounding everywhere
TClose(a, b) ==
    /\ a.shape = b.shape
    /\ \A i \in Idx(a.shape) : Close(a.data[i], b.data[i])

\* C3: each of the six components hessian returns for a 3D image equals, at
\* every voxel (borders included, up to rounding), gaussian_filter with the
\* component's per-axis orders and the same mode and truncate.
C3_FusedEqualsSeparable ==
    (pc = "components" /\ Rank(img) = 5) =>
        \A j \in 1..6 :
            TClose(ret[j],
                   gaussian_filter(img, sigma, ComponentOrders3D[j], mode, truncate))

\* C6: the matrix field of hessian(as_matrix=True) is symmetric and its upper
\* triangle, read row-major as eigvalsh reads it, is the component tuple of
\* hessian(as_matrix=False).
C6_MatrixRoundTrip ==
    pc = "matrix" =>
        /\ IsSquareMatrix(ret)
        /\ IsHermitian(ret)
        /\ TriuBlocks(ret) = comps

\* C6's case: a 3D matrix field with a non-zero off-diagonal entry whose
\* components are not all equal
C6_Witness ==
    /\ pc = "matrix"
    /\ ret.shape[2] = 3
    /\ \E i \in Idx(ret.shape) : i[2] # i[3] /\ ret.data[i] # Zero
    /\ \E i \in Idx(ret.shape) : ret.data[i] # ret.data[SetAt(SetAt(i, 2, 1), 3, 1)]

-----------------------------------------------------------------------------
(* Calls of eigvalsh2 and eigvalsh3 on the components of one matrix *)

\* largest magnitude of the integer matrix entries drawn
MaxEntry == 3

\* a block of shape [1, 1, *spatial] with one pixel of value v
Pixel(nspatial, v) ==
    LET sh == [k \in 1..(2 + nspatial) |-> 1]
    IN  T(sh, [i \in Idx(sh) |-> v])

\* the value of a block of one pixel
PixelValue(t) == Flat(t)[1]

Entries2 == {R(k) : k \in -MaxEntry..MaxEntry}

Entries3 == {R(-1), Zero, Fl(3, -1)}

\* the values c of the scalar matrices diag(c, c, c) drawn
ScalarEntries == Entries2 \cup {Fl(8193, -13), Fl(-10923, -15), Fl(1, -12), R(1000)}

EigInputs ==
    {<<Pixel(2, a), Pixel(2, b), Pixel(2, c)>> : a \in Entries2, b \in Entries2, c \in Entries2}
    \cup {<<Pixel(3, m[1]), Pixel(3, m[2]), Pixel(3, m[3]),
            Pixel(3, m[4]), Pixel(3, m[5]), Pixel(3, m[6])>> : m \in [1..6 -> Entries3]}
    \cup {<<Pixel(3, c), Pixel(3, Zero), Pixel(3, Zero),
            Pixel(3, c), Pixel(3, Zero), Pixel(3, c)>> : c \in ScalarEntries}

InitEig ==
    /\ pc = "call"
    /\ err = "none"
    /\ comps \in EigInputs
    /\ eigEps = EigEpsDefault
    /\ ret = Unused
    /\ img = Unused /\ sigma = Unused /\ order = Unused /\ truncate = Unused
    /\ mode = Unused /\ stable = Unused /\ dim = Unused /\ nconv = Unused
    /\ kernel = Unused /\ eig = Unused
    /\ image = Unused /\ sigmas = Unused /\ gamma = Unused /\ eps = Unused
    /\ nscales = Unused /\ eigenvalues = Unused /\ r_a = Unused /\ r_b = Unused
    /\ result = Unused
    /\ filtered_max = Unused

\* eigvalsh2(ii, ij, jj)
CallEigvalsh2 ==
    /\ pc = "call"
    /\ Len(comps) = 3
    /\ ret' = eigvalsh2(comps[1], comps[2], comps[3])
    /\ pc' = "eigvalsh2"
    /\ UNCHANGED <<err, img, sigma, order, truncate, mode, stable, dim, nconv, kernel,
                   comps, eig, eigEps, frangiVars>>

\* eigvalsh3(ii, ij, ik, jj, jk, kk) with the default eps
CallEigvalsh3 ==
    /\ pc = "call"
    /\ Len(comps) = 6
    /\ ret' = eigvalsh3(comps[1], comps[2], comps[3], comps[4], comps[5], comps[6], eigEps)
    /\ pc' = "eigvalsh3"
    /\ UNCHANGED <<err, img, sigma, order, truncate, mode, stable, dim, nconv, kernel,
                   comps, eig, eigEps, frangiVars>>

NextEig == CallEigvalsh2 \/ CallEigvalsh3

SpecEig == InitEig /\ [][NextEig]_vars

\* the k-th value along axis 2 of a field with one pixel
Eigenvalue(t, k) == Flat(t)[k]

\* C8: eigvalsh2 returns ((t - sqrt(D)) / 2, (t + sqrt(D)) / 2) with
\* t = ii + jj and D = max(t^2 - 4 (ii jj - ij^2), 0): the first value is at
\* most the second, their sum is the trace and, where D is not clamped,
\* their product is the determinant (both up to rounding);
\* eigvalsh2(2, 0, 2) = (2, 2) and eigvalsh2(1, 0, 3) = (1, 3).
C8_Eigvalsh2ClosedForm ==
    pc = "eigvalsh2" =>
        LET ii == PixelValue(comps[1])
            ij == PixelValue(comps[2])
            jj == PixelValue(comps[3])
            t == RAdd(ii, jj)
            det == RSub(RMul(ii, jj), RSquare(ij))
            unclamped == RSub(RSquare(t), RMul(R(4), det))
            D == RMax(unclamped, Zero)
            first == Eigenvalue(ret, 1)
            second == Eigenvalue(ret, 2)
        IN  /\ ret.shape = <<1, 2, 1, 1>>
            /\ first = RDiv(RSub(t, RSqrt(D)), Two)
            /\ second = RDiv(RAdd(t, RSqrt(D)), Two)
            /\ RLe(first, second)
            /\ Close(RAdd(first, second), t)
            /\ RLe(Zero, unclamped) => Close(RMul(first, second), det)
            /\ (ii = R(2) /\ ij = Zero /\ jj = R(2)) => (first = R(2) /\ second = R(2))
            /\ (ii = R(1) /\ ij = Zero /\ jj = R(3)) => (first = R(1) /\ second = R(3))

\* C8's case: a matrix with an off-diagonal entry and two different
\* eigenvalues, the square root not exact
C8_Witness ==
    /\ pc = "eigvalsh2"
    /\ PixelValue(comps[2]) # Zero
    /\ Eigenvalue(ret, 1) # Eigenvalue(ret, 2)
    /\ RMul(Eigenvalue(ret, 1), Eigenvalue(ret, 2))
           # RSub(RMul(PixelValue(comps[1]), PixelValue(comps[3])),
                  RSquare(PixelValue(comps[2])))

\* the input is diag(c, c, c)
IsScalarMatrix(h) ==
    /\ PixelValue(h[2]) = Zero /\ PixelValue(h[3]) = Zero /\ PixelValue(h[5]) = Zero
    /\ PixelValue(h[1]) = PixelValue(h[4]) /\ PixelValue(h[4]) = PixelValue(h[6])

\* C9: eigvalsh3 of diag(c, c, c) is (c, c, c), the ratio of the eps-guarded
\* division lying in [-1, 1]: the first and third value are c, and so is the
\* second, 3q - eig1 - eig3, up to the rounding of its three operations
\* (none when c is an integer); and for every input the three values
\* returned sum to the trace ii + jj + kk (up to rounding).
C9_Eigvalsh3ScalarAndTrace ==
    pc = "eigvalsh3" =>
        /\ ret.shape = <<1, 3, 1, 1, 1>>
        /\ Close(RAdd(RAdd(Eigenvalue(ret, 1), Eigenvalue(ret, 2)), Eigenvalue(ret, 3)),
                 RAdd(RAdd(PixelValue(comps[1]), PixelValue(comps[4])),
                      PixelValue(comps[6])))
        /\ IsScalarMatrix(comps) =>
              LET c == PixelValue(comps[1])
                  r == PixelValue(eigvalsh3_qpr(comps[1], comps[2], comps[3], comps[4],
                                                comps[5], comps[6], eigEps).r)
              IN  /\ Eigenvalue(ret, 1) = c
                  /\ Eigenvalue(ret, 3) = c
                  /\ Close(Eigenvalue(ret, 2), c)
                  /\ c[2] >= 0 => Eigenvalue(ret, 2) = c
                  /\ RLe(R(-1), r)
                  /\ RLe(r, One)

\* C9's case: a non-zero scalar matrix
C9_Witness ==
    /\ pc = "eigvalsh3"
    /\ IsScalarMatrix(comps)
    /\ PixelValue(comps[1]) # Zero
    /\ Eigenvalue(ret, 2) = PixelValue(comps[1])

-----------------------------------------------------------------------------
(* Calls of frangi, one scale per step *)

\* a batch: single images [1, 1, *spatial] of one shape joined along axis 1
Batch(ims) == Concat(ims, 1)

\* the b-th element of a batch, as a batch of one
BatchElement(t, b) ==
    LET sh == SetAt(t.shape, 1, 1)
    IN  T(sh, [i \in Idx(sh) |-> t.data[SetAt(i, 1, b)]])

FrangiSingles2D ==
    {Impulse(<<2, 2>>, <<1, 1, 1, 1>>, v) : v \in 1..MaxPixel}
    \cup {Saddle(<<2, 2>>, 1), Ramp(<<2, 3>>)}

FrangiSingles3D == {Saddle(<<2, 2, 3>>, 1)}

FrangiImages ==
    FrangiSingles2D \cup FrangiSingles3D
    \cup {Batch(<<a, b>>) : a \in {Saddle(<<2, 2>>, 1)},
                            b \in {x \in FrangiSingles2D : x.shape = <<1, 1, 2, 2>>}}
    \cup {Batch(<<Saddle(<<2, 2>>, 1), Saddle(<<2, 2>>, 1), Ramp(<<2, 2>>)>>),
          Batch(<<Saddle(<<2, 2, 3>>, 1), Ramp(<<2, 2, 3>>)>>),
          Ramp(<<3>>)}

\* the scales drawn: 0, 1/8, 1/4 and the negative -1/4
FrangiSigmaLists ==
    {<<Zero>>, <<Fl(1, -3)>>, <<Fl(1, -2)>>, <<Fl(1, -3), Fl(1, -2)>>,
     <<Fl(1, -2), Fl(1, -3)>>, <<Fl(1, -2), Zero>>, <<Fl(-1, -2)>>,
     <<Fl(1, -2), Fl(-1, -2)>>}

\* gamma: None, or a threshold given by the caller
FrangiGammas == {<<>>, <<Half>>, <<Fl(1, -6)>>}

InitFrangi ==
    /\ pc = "call"
    /\ err = "none"
    /\ image \in FrangiImages
    /\ sigmas \in FrangiSigmaLists
    /\ gamma \in FrangiGammas
    /\ eps = FrangiEpsDefault
    /\ \A k \in 1..Len(sigmas) :
          RLe(Zero, sigmas[k]) => ShapesAccepted(image, sigmas[k], DefaultTruncate, DefaultMode)
    /\ nscales = 0
    /\ filtered_max = Unused
    /\ eigenvalues = Unused /\ r_a = Unused /\ r_b = Unused /\ result = Unused
    /\ comps = Unused /\ eig = Unused /\ stable = Unused /\ ret = Unused
    /\ img = Unused /\ sigma = Unused /\ order = Unused /\ truncate = Unused
    /\ mode = Unused /\ dim = Unused /\ nconv = Unused /\ kernel = Unused
    /\ eigEps = Unused

\* the variables of a call of frangi that a scale leaves alone
frangiFixed == <<img, sigma, order, truncate, mode, dim, nconv, kernel, ret, eigEps,
                 image, sigmas, gamma, eps>>

\* lines 227-230: an image that is neither [B C H W] nor [B C D H W]
FrangiRaiseRank ==
    /\ pc = "call"
    /\ Rank(image) \notin {4, 5}
    /\ err' = "ValueError"
    /\ pc' = "raised"
    /\ UNCHANGED <<frangiFixed, stable, comps, eig, nscales, eigenvalues, r_a, r_b, result,
                   filtered_max>>

\* lines 252-253: a scale below 0
FrangiRaiseSigma ==
    /\ pc = "call"
    /\ Rank(image) \in {4, 5}
    /\ \E k \in 1..Len(sigmas) : RLt(sigmas[k], Zero)
    /\ err' = "ValueError"
    /\ pc' = "raised"
    /\ UNCHANGED <<frangiFixed, stable, comps, eig, nscales, eigenvalues, r_a, r_b, result,
                   filtered_max>>

\* lines 227-255 without a raise: the running maximum starts at zero
FrangiStart ==
    /\ pc = "call"
    /\ Rank(image) \in {4, 5}
    /\ \A k \in 1..Len(sigmas) : ~RLt(sigmas[k], Zero)
    /\ filtered_max' = ZerosLike(image)
    /\ pc' = "loop"
    /\ UNCHANGED <<frangiFixed, err, stable, comps, eig, nscales, eigenvalues, r_a, r_b,
                   result>>

\* lines 258-285: one scale.  Neither argsort is asked for a stable sort, so
\* each can leave tied values in either order.
FrangiScale ==
    /\ pc = "loop"
    /\ nscales < Len(sigmas)
    /\ comps' = hessian(image, sigmas[nscales + 1], DefaultMode, DefaultTruncate)
    /\ eig' = HessianEig(comps')
    /\ \E st1 \in BOOLEAN, st2 \in BOOLEAN :
          /\ stable' = <<st1, st2>>
          /\ \E hev \in {SortByAbs(eig', st1)} : eigenvalues' = frangi_sorted(hev, st2)
          /\ UnpackFits(eigenvalues', Rank(image))
          /\ \E ratios \in {frangi_ratios(eigenvalues', Rank(image), eps)} :
                /\ r_a' = ratios.r_a
                /\ r_b' = ratios.r_b
          /\ result' = frangi_response(eigenvalues', r_a', r_b', gamma, eps)
          /\ Broadcastable(filtered_max.shape, result'.shape)
          /\ filtered_max' = TMaximum(filtered_max, result')
    /\ nscales' = nscales + 1
    /\ UNCHANGED <<frangiFixed, pc, err>>

\* lines 258-270 when the tuple unpacking of line 263 or 270 raises
FrangiScaleRaise ==
    /\ pc = "loop"
    /\ nscales < Len(sigmas)
    /\ comps' = hessian(image, sigmas[nscales + 1], DefaultMode, DefaultTruncate)
    /\ eig' = HessianEig(comps')
    /\ \E st1 \in BOOLEAN, st2 \in BOOLEAN :
          /\ stable' = <<st1, st2>>
          /\ \E hev \in {SortByAbs(eig', st1)} : eigenvalues' = frangi_sorted(hev, st2)
          /\ ~UnpackFits(eigenvalues', Rank(image))
    /\ err' = "ValueError"
    /\ pc' = "raised"
    /\ UNCHANGED <<frangiFixed, nscales, r_a, r_b, result, filtered_max>>

\* line 287
FrangiReturn ==
    /\ pc = "loop"
    /\ nscales = Len(sigmas)
    /\ ret' = filtered_max
    /\ pc' = "returned"
    /\ UNCHANGED <<err, img, sigma, order, truncate, mode, stable, dim, nconv, kernel,
                   comps, eig, eigEps, frangiVars>>

NextFrangi ==
    \/ FrangiRaiseRank
    \/ FrangiRaiseSigma
    \/ FrangiStart
    \/ FrangiScale
    \/ FrangiScaleRaise
    \/ FrangiReturn

SpecFrangi == InitFrangi /\ [][NextFrangi]_vars

\* a call that passes the checks of lines 227 and 252
FrangiAccepted ==
    /\ Rank(image) \in {4, 5}
    /\ \A k \in 1..Len(sigmas) : ~RLt(sigmas[k], Zero)

InUnitInterval(t) ==
    \A i \in Idx(t.shape) : RLe(Zero, t.data[i]) /\ RLt(t.data[i], One)

NeverDecreases(old, new) ==
    /\ new.shape = old.shape
    /\ \A i \in Idx(old.shape) : RLe(old.data[i], new.data[i])

\* C2: after every scale the running maximum of frangi has each element at
\* least 0 and below 1, and no element is smaller than it was before the scale.
C2_RunningMaxBounded ==
    /\ [](pc \in {"loop", "returned"} => InUnitInterval(filtered_max))
    /\ [][(pc = "loop" /\ pc' = "loop") => NeverDecreases(filtered_max, filtered_max')]_vars

\* the magnitude of lambda2 with the floor at eps
FlooredMagnitude(l2, ep) ==
    IF IsNaN(l2) THEN l2 ELSE IF RLt(RAbs(l2), ep) THEN ep ELSE RAbs(l2)

ExpectedRb(l1, l2, ep) ==
    LET q == RDiv(RAbs(l1), FlooredMagnitude(l2, ep))
    IN  IF IsFinite(q) THEN q ELSE Zero

PlateFactor(ra) ==
    TSub(Scalar(One), TExp(TDiv(TNeg(TSquare(ra)), Scalar(RMul(Two, RSquare(Alpha))))))

\* C5: for a 2D image, after each scale and at every pixel, Rb is
\* |lambda1 / lambda2'| with lambda2' the second eigenvalue floored at eps in
\* magnitude whatever its sign, 0 where that ratio is not finite, and the
\* factor of Ra is exactly 1.
C5_BlobRatio2D ==
    (Rank(image) = 4 /\ pc \in {"loop", "returned"} /\ nscales > 0) =>
        /\ eigenvalues.shape = <<2>> \o r_b.shape
        /\ \A i \in Idx(r_b.shape) :
              r_b.data[i] = ExpectedRb(eigenvalues.data[<<1>> \o i],
                                       eigenvalues.data[<<2>> \o i], eps)
        /\ \A i \in Idx(PlateFactor(r_a).shape) : PlateFactor(r_a).data[i] = One

\* C10: a call of frangi that passes the input checks returns a tensor of the
\* shape of the image whose b-th batch element is what frangi returns for the
\* b-th element of the image alone.
C10_BatchIndependent ==
    (FrangiAccepted /\ pc \in {"returned", "raised"}) =>
        /\ pc = "returned"
        /\ ret.shape = image.shape
        /\ \A b \in 1..image.shape[1] :
              \E st1 \in BOOLEAN, st2 \in BOOLEAN :
                  BatchElement(ret, b) =
                      frangi(BatchElement(image, b), sigmas, gamma, eps, st1, st2)

=============================================================================
